---- MODULE Spec2Model ----
(***************************************************************************)
(* Revenue-table extraction of poc-tl10k: the retry wrappers, the table    *)
(* canonicalizer (cleanup_table), the table locator (get_gaaps,            *)
(* get_tables_by_tag), the refiner (refine_table, parse_json_response)     *)
(* and the aggregator (analyze_revenue_tables).                            *)
(*                                                                         *)
(* The specifications of the module:                                       *)
(*   SpecRetry  calls of a wrapped step through retry(max_retries) or      *)
(*              retry_with_backoff, for every failure pattern of the step; *)
(*   SpecClean  cleanup_table applied to a table and to its own result;    *)
(*   Spec       one run of analyze_revenue_tables over a document, with    *)
(*              the completion service answering each request freely.      *)
(*   SpecFilter    the keyword filters on a tag list;                      *)
(*   SpecValidate  one response text through refine_table;                 *)
(*   SpecGrid      convert_html_table_to_markdown on a table;              *)
(*   SpecLocate    get_tables_by_tag on the elements carrying a tag;       *)
(*   SpecCanon     get_tables_by_tag when cleanup_table may raise;         *)
(*   SpecReport    main() of tl10k.py: get_summarize, then save_result.    *)
(***************************************************************************)
EXTENDS Integers, Sequences, FiniteSets, TLC

VARIABLES
    \* ---- the retry wrappers (SpecRetry, and refine_table's wrapper in Spec)
    policy,          \* which wrapper is applied: "retry" or "retry_with_backoff"
    max_retries,     \* retry's parameter max_retries / retry_with_backoff's max_attempts
    fails,           \* fails[i]: the i-th invocation of the wrapped step raises
    w,               \* the wrapper's frame: locals, invocations made, how it ended
    prior,           \* how the earlier calls through the same wrapper ended
    \* ---- cleanup_table (SpecClean)
    table,           \* the table handed to cleanup_table
    cleaned,         \* cleanup_table(table), once computed
    recleaned,       \* cleanup_table(cleaned), once computed
    \* ---- analyze_revenue_tables (Spec)
    pc,              \* position in analyze_revenue_tables
    filing,          \* the document behind filing_url: its tagged elements in document order
    gaap_tags,       \* the filtered tag list the outer loop iterates
    tag_idx,         \* index of the tag being processed
    discovered,      \* the tables of the current tag in the order the locator met them
    revenue_tables,  \* get_tables_by_tag's return for the current tag
    tbl_idx,         \* index of the table being refined
    refined_tables,  \* the list analyze_revenue_tables accumulates
    returned,        \* the value analyze_revenue_tables returned
    last,            \* the latest request to the completion service and what came of it
    \* ---- the pure functions, one call each (SpecFilter, SpecValidate, SpecGrid, SpecLocate)
    args,            \* the arguments of the call
    result,          \* whether the function has been applied, and its value
    \* ---- the report assembler of tl10k.py (SpecReport)
    report           \* how far main() has come, what it saved, how the process exited

vars == <<policy, max_retries, fails, w, prior, table, cleaned, recleaned, pc, filing,
          gaap_tags, tag_idx, discovered, revenue_tables, tbl_idx, refined_tables,
          returned, last, args, result, report>>

retry_vars == <<policy, max_retries, fails, prior>>
clean_vars == <<table, cleaned, recleaned>>
fn_vars    == <<args, result, report>>
run_vars   == <<pc, filing, gaap_tags, tag_idx, discovered, revenue_tables, tbl_idx,
                refined_tables, returned, last>>

None == "None"

(***************************************************************************)
(* Bounds                                                                  *)
(***************************************************************************)
MaxRetries == 4      \* largest max_retries handed to retry()
MaxCalls == 3        \* most calls made in a row through one wrapped function

(***************************************************************************)
(* Retry wrappers                                                          *)
(***************************************************************************)

\* retry_with_backoff's max_attempts.
max_attempts == 3

\* The wrapper's frame on entry: retries = 0 (retry), attempt = 1 (backoff).
\* calls counts invocations of the wrapped step; value names the invocation whose
\* result was returned or whose error was raised; waits lists the sleeps made.
NewFrame == [retries |-> 0, attempt |-> 1, calls |-> 0, status |-> "running",
             value |-> 0, waits |-> <<>>]

\* Mutant of wrapper_entry: the counters live outside wrapper() and are kept
\* from one call to the next.
wrapper_entry_shared(f) == [NewFrame EXCEPT !.retries = f.retries, !.attempt = f.attempt]

\* Entering wrapper(*args, **kwargs): retries = 0 / attempt = 1 are locals of the
\* call, so nothing of the frame f of the previous call survives.
wrapper_entry(f) == NewFrame

\* Mutant of retry_wrapper: the last error is swallowed instead of re-raised.
retry_wrapper_swallow(max, f, failed) ==
    LET n == f.calls + 1 IN
    IF f.retries < max
    THEN IF ~failed
         THEN [f EXCEPT !.calls = n, !.status = "returned", !.value = n]
         ELSE IF f.retries + 1 = max
              THEN [f EXCEPT !.calls = n, !.retries = @ + 1, !.status = "returned",
                             !.value = 0]
              ELSE [f EXCEPT !.calls = n, !.retries = @ + 1]
    ELSE [f EXCEPT !.calls = n, !.value = n,
                   !.status = IF failed THEN "raised" ELSE "returned"]

\* Mutant of retry_wrapper: the bound check is off by one (raises one attempt early).
retry_wrapper_early(max, f, failed) ==
    LET n == f.calls + 1 IN
    IF f.retries < max
    THEN IF ~failed
         THEN [f EXCEPT !.calls = n, !.status = "returned", !.value = n]
         ELSE IF f.retries + 1 >= max - 1
              THEN [f EXCEPT !.calls = n, !.retries = @ + 1, !.status = "raised",
                             !.value = n]
              ELSE [f EXCEPT !.calls = n, !.retries = @ + 1]
    ELSE [f EXCEPT !.calls = n, !.value = n,
                   !.status = IF failed THEN "raised" ELSE "returned"]

\* Mutant of retry_wrapper: a failure is not counted, the loop goes on for ever.
retry_wrapper_unbounded(max, f, failed) ==
    LET n == f.calls + 1 IN
    IF ~failed
    THEN [f EXCEPT !.calls = n, !.status = "returned", !.value = n]
    ELSE [f EXCEPT !.calls = n]

\* Mutant of retry_wrapper: there is no call after the loop, a loop that is not
\* entered returns None.
retry_wrapper_no_trailing(max, f, failed) ==
    LET n == f.calls + 1 IN
    IF f.retries < max
    THEN IF ~failed
         THEN [f EXCEPT !.calls = n, !.status = "returned", !.value = n]
         ELSE IF f.retries + 1 = max
              THEN [f EXCEPT !.calls = n, !.retries = @ + 1, !.status = "raised",
                             !.value = n]
              ELSE [f EXCEPT !.calls = n, !.retries = @ + 1]
    ELSE [f EXCEPT !.status = "returned"]

\* One invocation of the wrapped step inside retry(max)'s wrapper, and what the
\* wrapper does with its outcome.  Inside the loop a result is returned, a
\* failure is counted and re-raised once retries = max_retries; when the loop
\* is not entered (max <= 0) the trailing unguarded call runs.
retry_wrapper(max, f, failed) ==
    LET n == f.calls + 1 IN
    IF f.retries < max
    THEN IF ~failed
         THEN [f EXCEPT !.calls = n, !.status = "returned", !.value = n]
         ELSE IF f.retries + 1 = max
              THEN [f EXCEPT !.calls = n, !.retries = @ + 1, !.status = "raised",
                             !.value = n]
              ELSE [f EXCEPT !.calls = n, !.retries = @ + 1]
    ELSE [f EXCEPT !.calls = n, !.value = n,
                   !.status = IF failed THEN "raised" ELSE "returned"]

\* 2 ** attempt
RECURSIVE Pow2(_)
Pow2(n) == IF n = 0 THEN 1 ELSE 2 * Pow2(n - 1)

\* Mutant of backoff_wrapper: the wrapper sleeps before it re-raises as well.
backoff_wrapper_wait_last(f, failed) ==
    LET n == f.calls + 1 IN
    IF ~failed
    THEN [f EXCEPT !.calls = n, !.status = "returned", !.value = n]
    ELSE IF f.attempt = max_attempts
         THEN [f EXCEPT !.calls = n, !.status = "raised", !.value = n,
                        !.waits = Append(@, Pow2(f.attempt))]
         ELSE [f EXCEPT !.calls = n, !.attempt = @ + 1,
                        !.waits = Append(@, Pow2(f.attempt))]

\* Mutant of backoff_wrapper: the last attempt is the one after max_attempts.
backoff_wrapper_one_more(f, failed) ==
    LET n == f.calls + 1 IN
    IF ~failed
    THEN [f EXCEPT !.calls = n, !.status = "returned", !.value = n]
    ELSE IF f.attempt = max_attempts + 1
         THEN [f EXCEPT !.calls = n, !.status = "raised", !.value = n]
         ELSE [f EXCEPT !.calls = n, !.attempt = @ + 1,
                        !.waits = Append(@, Pow2(f.attempt))]

\* One invocation of the wrapped step inside retry_with_backoff's wrapper.
backoff_wrapper(f, failed) ==
    LET n == f.calls + 1 IN
    IF ~failed
    THEN [f EXCEPT !.calls = n, !.status = "returned", !.value = n]
    ELSE IF f.attempt = max_attempts
         THEN [f EXCEPT !.calls = n, !.status = "raised", !.value = n]
         ELSE [f EXCEPT !.calls = n, !.attempt = @ + 1,
                        !.waits = Append(@, Pow2(f.attempt))]

\* The invocations a failure pattern has to cover.
StepCalls == IF MaxRetries > max_attempts THEN MaxRetries ELSE max_attempts

\* A whole call through retry(max) on a failure pattern, from frame f on.
RECURSIVE run_retry(_, _, _)
run_retry(max, f, pattern) ==
    IF f.status # "running" THEN f
    ELSE run_retry(max, retry_wrapper(max, f, pattern[f.calls + 1]), pattern)

\* A whole call through retry_with_backoff on a failure pattern, from frame f on.
RECURSIVE run_backoff(_, _)
run_backoff(f, pattern) ==
    IF f.status # "running" THEN f
    ELSE run_backoff(backoff_wrapper(f, pattern[f.calls + 1]), pattern)

(***************************************************************************)
(* cleanup_table                                                           *)
(***************************************************************************)
MaxStyleLen == 3     \* longest style value of an input element, in tokens
MaxElems == 1        \* most elements (the table tag and its descendants) of an input table

\* A style value is a sequence of tokens: "P" is the text `padding:`, ";" the
\* semicolon, "c" any other character.  `padding:` cannot overlap itself, so
\* the regular expression sees a style exactly as this sequence.
StyleTokens == {"P", ";", "c"}
\* An element without a style attribute.
NoStyle == <<"absent">>

\* Attribute names as the XML parse of the filing spells them (case kept).
AttrNames == {"id", "contextRef", "format", "name", "colspan"}

attrs_to_remove == {"contextref", "name", "format", "id"}

\* html.parser lower-cases attribute names: BeautifulSoup(str(table), 'html.parser').
LowerAttr(a) == IF a = "contextRef" THEN "contextref" ELSE a

html_parser(t) ==
    [i \in 1..Len(t) |-> [attrs |-> {LowerAttr(a) : a \in t[i].attrs},
                          style |-> t[i].style]]

\* re.search(r'padding:[^;]+', style): the leftmost `padding:` that is followed by
\* at least one character other than ';', extended over every such character.
\* <<>> when there is no match (a match is never empty).
re_search_padding(style) ==
    LET starts == {i \in 1..Len(style) - 1 : style[i] = "P" /\ style[i + 1] # ";"}
    IN  IF starts = {} THEN <<>>
        ELSE LET i == CHOOSE x \in starts : \A y \in starts : x <= y
                 stops == {j \in i + 1..Len(style) : style[j] = ";"}
                 end == IF stops = {} THEN Len(style)
                        ELSE (CHOOSE x \in stops : \A y \in stops : x <= y) - 1
             IN  SubSeq(style, i, end)

\* Mutant of cleanup_element: a style without a padding directive is left alone.
cleanup_element_keep_style(e) ==
    LET m == IF e.style = NoStyle THEN <<>> ELSE re_search_padding(e.style)
        style == IF e.style = NoStyle \/ m = <<>> THEN e.style
                 ELSE Append(m, ";")
    IN  [attrs |-> e.attrs \ attrs_to_remove, style |-> style]

\* Mutant of cleanup_element: only the padding's value is kept, not the directive.
cleanup_element_value_only(e) ==
    LET m == IF e.style = NoStyle THEN <<>> ELSE re_search_padding(e.style)
        style == IF e.style = NoStyle \/ m = <<>> THEN NoStyle
                 ELSE Append(Tail(m), ";")
    IN  [attrs |-> e.attrs \ attrs_to_remove, style |-> style]

\* The loop body of cleanup_table for one element: the style keeps the padding
\* match followed by ';' or is deleted; the listed attributes are deleted.
cleanup_element(e) ==
    LET m == IF e.style = NoStyle THEN <<>> ELSE re_search_padding(e.style)
        style == IF e.style = NoStyle \/ m = <<>> THEN NoStyle
                 ELSE Append(m, ";")
    IN  [attrs |-> e.attrs \ attrs_to_remove, style |-> style]

\* cleanup_table: re-parse the table's markup with html.parser, clean every
\* element found by find_all(), serialize.
cleanup_table(t) ==
    LET copy == html_parser(t)
    IN  [i \in 1..Len(copy) |-> cleanup_element(copy[i])]

Styles == {NoStyle} \cup UNION {[1..n -> StyleTokens] : n \in 0..MaxStyleLen}
\* The attribute sets of the input elements: none, one attribute, an id next
\* to a colspan, all of them.
AttrSets == {{}} \cup {{a} : a \in AttrNames} \cup {{"id", "colspan"}, AttrNames}
RawElements == [attrs : AttrSets, style : Styles]
RawTables == UNION {[1..n -> RawElements] : n \in 1..MaxElems}

\* A result not computed yet (a table has at least its table element).
NotYet == <<>>

InitClean ==
    /\ table \in RawTables
    /\ cleaned = NotYet
    /\ recleaned = NotYet

\* cleaned_table = self.cleanup_table(parent_table)
Cleanup ==
    /\ cleaned = NotYet
    /\ cleaned' = cleanup_table(table)
    /\ UNCHANGED <<table, recleaned>>

\* cleanup_table applied to its own result
CleanupAgain ==
    /\ cleaned # NotYet
    /\ recleaned = NotYet
    /\ recleaned' = cleanup_table(cleaned)
    /\ UNCHANGED <<table, cleaned>>

(***************************************************************************)
(* The filing document                                                     *)
(***************************************************************************)
MaxElements == 2     \* most tagged elements of a filing

\* Local names of the taxonomy tags in the filings considered, and their spelling.
Locals == {"Revenues", "RevenueNet", "CostOfRevenue"}
Spell(tag) ==
    CASE tag = "Revenues"      -> <<"R", "e", "v", "e", "n", "u", "e", "s">>
      [] tag = "RevenueNet"    -> <<"R", "e", "v", "e", "n", "u", "e", "N", "e", "t">>
      [] tag = "CostOfRevenue" -> <<"C", "o", "s", "t", "O", "f", "R", "e", "v", "e", "n",
                                    "u", "e">>

\* Code points of the characters used, and str.lower() on them.
Ord(c) ==
    CASE c = "C" -> 67 [] c = "N" -> 78 [] c = "O" -> 79 [] c = "R" -> 82
      [] c = "e" -> 101 [] c = "f" -> 102 [] c = "n" -> 110 [] c = "o" -> 111
      [] c = "r" -> 114 [] c = "s" -> 115 [] c = "t" -> 116 [] c = "u" -> 117
      [] c = "v" -> 118
LowerChar(c) ==
    CASE c = "C" -> "c" [] c = "N" -> "n" [] c = "O" -> "o" [] c = "R" -> "r"
      [] OTHER -> c
Lower(cs) == [i \in 1..Len(cs) |-> LowerChar(cs[i])]

\* str.startswith
StartsWith(cs, prefix) ==
    /\ Len(prefix) <= Len(cs)
    /\ \A i \in 1..Len(prefix) : cs[i] = prefix[i]

\* Python's string order: by code point, a proper prefix first.
StrLess(a, b) ==
    \E k \in 1..Len(b) :
        /\ \A i \in 1..k - 1 : i <= Len(a) /\ a[i] = b[i]
        /\ k - 1 <= Len(a)
        /\ \/ k = Len(a) + 1
           \/ k <= Len(a) /\ Ord(a[k]) < Ord(b[k])

\* Element names as the XML parse reports them, and str.lower() on them.
Kinds == {"nonFraction", "numeric", "continuation"}
LowerKind(k) ==
    CASE k = "nonFraction" -> "nonfraction" [] k = "nonNumeric" -> "nonnumeric"
      [] OTHER -> k

\* Table containers of the document; NoTable: the element has no table ancestor.
Tables == {"tableA", "tableB"}
NoTable == "NoTable"

\* The markup of each table container: its elements with their attributes.
RawTable(t) ==
    CASE t = "tableA" -> <<[attrs |-> {"id"}, style |-> <<"c">>],
                           [attrs |-> {"id", "contextRef", "format"},
                            style |-> <<"P", "c">>]>>
      [] t = "tableB" -> <<[attrs |-> {}, style |-> NoStyle],
                           [attrs |-> {"contextRef", "colspan"}, style |-> NoStyle]>>

\* An element carrying a name attribute: its qualified name, its element name,
\* its nearest table ancestor.  A measure element carries its tag as text instead.
NamedElements == [ns : {"us-gaap"}, local : Locals, kind : Kinds,
                  table : Tables \cup {NoTable}]
MeasureElements == [ns : {"us-gaap"}, local : Locals, kind : {"xbrli:measure"},
                    table : {NoTable}]
Elements == NamedElements \cup MeasureElements
Filings == UNION {[1..n -> Elements] : n \in 0..MaxElements}

(***************************************************************************)
(* Tag index, tag filter, table locator                                    *)
(***************************************************************************)
Range(f) == {f[i] : i \in DOMAIN f}

\* sorted(list(gaap_tags))
RECURSIVE SortTags(_)
SortTags(S) ==
    IF S = {} THEN <<>>
    ELSE LET m == CHOOSE x \in S : \A y \in S \ {x} : StrLess(Spell(x), Spell(y))
         IN  <<m>> \o SortTags(S \ {m})

\* get_gaaps on a document that parses: the local names of the us-gaap names on
\* elements with a name attribute and in the text of measure elements, sorted.
get_gaaps(doc) ==
    SortTags({doc[i].local : i \in {j \in DOMAIN doc : doc[j].ns = "us-gaap"}})

expected_keywords == {<<"r", "e", "v", "e", "n", "u", "e">>}

\* `sub in cs` on strings
Contains(cs, sub) ==
    \E i \in 0..Len(cs) - Len(sub) : \A j \in 1..Len(sub) : cs[i + j] = sub[j]

\* Mutant of tag_filter: the keyword is lower-cased as well.
tag_filter_lower_both(tags, keywords) ==
    LET keep(tag) == \E kw \in keywords : StartsWith(Lower(Spell(tag)), Lower(kw))
    IN  SelectSeq(tags, keep)

\* [tag for tag in gaap_tags if tag.lower().startswith(tuple(keywords))]: the
\* tag is lower-cased, each keyword is taken as written; an empty tuple matches
\* nothing.
tag_filter(tags, keywords) ==
    LET keep(tag) == \E kw \in keywords : StartsWith(Lower(Spell(tag)), kw)
    IN  SelectSeq(tags, keep)

filter_tags(tags) == tag_filter(tags, expected_keywords)

\* elem['name'] of a us-gaap element: the qualified name.
QualifiedName(tag) == <<"u", "s", "-", "g", "a", "a", "p", ":">> \o Spell(tag)

\* filter_elements_by_keywords: an element is kept when some lower-cased keyword
\* occurs anywhere in its lower-cased name.
filter_elements_by_keywords(elements, keywords) ==
    LET keep(tag) == \E kw \in keywords : Contains(Lower(QualifiedName(tag)), Lower(kw))
    IN  SelectSeq(elements, keep)

fact_kinds == {"nonnumeric", "numeric", "nonfraction", "fraction"}

\* soup.select('[name="us-gaap:<tag>"]'): positions of the matching elements.
matching_elements(doc, tag) ==
    {i \in DOMAIN doc : /\ doc[i].kind # "xbrli:measure"
                        /\ doc[i].ns = "us-gaap"
                        /\ doc[i].local = tag}

\* The loop of get_tables_by_tag up to position i: the table containers whose
\* cleaned markup was added to the set, in the order they were first met.  A
\* container whose cleaned markup equals one already in the set adds nothing.
RECURSIVE locate(_, _, _)
locate(doc, tag, i) ==
    IF i = 0 THEN <<>>
    ELSE LET before == locate(doc, tag, i - 1)
             e == doc[i]
             isNew == \A k \in DOMAIN before :
                        cleanup_table(RawTable(before[k])) # cleanup_table(RawTable(e.table))
         IN  IF /\ i \in matching_elements(doc, tag)
                /\ LowerKind(e.kind) \in fact_kinds
                /\ e.table # NoTable
                /\ isNew
             THEN Append(before, e.table)
             ELSE before

\* Mutant of find_parent_table: the outermost enclosing table is taken.
find_parent_table_outermost(ancestors) ==
    LET at == {i \in DOMAIN ancestors : ancestors[i] \in Tables}
    IN  IF at = {} THEN NoTable
        ELSE ancestors[CHOOSE i \in at : \A j \in at : j <= i]

\* element.find_parent('table') over the element's ancestors, innermost first:
\* the first table met on the way up, or None.
find_parent_table(ancestors) ==
    LET at == {i \in DOMAIN ancestors : ancestors[i] \in Tables}
    IN  IF at = {} THEN NoTable
        ELSE ancestors[CHOOSE i \in at : \A j \in at : i <= j]

\* Element names met under a us-gaap name attribute, the ancestor chains of
\* such an element (innermost first), and the elements they make.
AllKinds == {"nonFraction", "nonNumeric", "numeric", "fraction", "continuation"}
Chains == {<<>>, <<"div">>, <<"tableA">>, <<"div", "tableB">>,
           <<"tableB", "tableA">>, <<"tableA", "div", "tableB">>}
Facts == {[ns |-> "us-gaap", local |-> "Revenues", kind |-> k, ancestors |-> c,
           table |-> find_parent_table(c)] : k \in AllKinds, c \in Chains}

\* get_tables_by_tag when cleanup_table raises on the tables in raising:
\* cleanup_table has no handler of its own, so the error of the first such
\* table reached leaves the loop and the handler of get_tables_by_tag returns [].
get_tables_by_tag(doc, tag, raising) ==
    IF \E i \in matching_elements(doc, tag) :
           /\ LowerKind(doc[i].kind) \in fact_kinds
           /\ doc[i].table # NoTable
           /\ doc[i].table \in raising
    THEN <<>>
    ELSE locate(doc, tag, Len(doc))

\* list(tables): a set of strings is iterated in hash order, which changes
\* from one interpreter start to the next: any order of the set's members.
list_of_set(found) ==
    {p \in [1..Len(found) -> Range(found)] : Range(p) = Range(found)}

(***************************************************************************)
(* convert_html_table_to_markdown                                          *)
(***************************************************************************)
MaxRows == 3         \* most tr rows of a table handed to the conversion

\* A td/th cell: its stripped text, and whether its style asks for right padding
\* ('padding-right' in the style or a directive starting with 'padding:').
CellTexts == {"", "a"}
Cells == [text : CellTexts, padding : BOOLEAN]
Widths == 0..2
TableRows == UNION {[1..n -> Cells] : n \in Widths}
HtmlTables == UNION {[1..n -> TableRows] : n \in 0..MaxRows}

MIN_NON_EMPTY_CELLS == 0

\* The text appended to row for a cell: prefixed with '- ' when the cell is
\* padded and not empty.
cell_text(td) == [dash |-> td.padding /\ td.text # "", text |-> td.text]
EmptyCell == [dash |-> FALSE, text |-> ""]

NonEmptyCells(row) == Cardinality({i \in DOMAIN row : row[i].text # ""})

\* Mutant of keep_row: a row needs two non-empty cells to be kept.
keep_row_two_cells(row) == NonEmptyCells(row) >= 2

\* len(non_empty_cells) >= MIN_NON_EMPTY_CELLS
keep_row(row) == NonEmptyCells(row) >= MIN_NON_EMPTY_CELLS

\* row = row[:len(headers)], then padded with "" up to len(headers)
fit_row(row, n) == [i \in 1..n |-> IF i <= Len(row) THEN row[i] ELSE EmptyCell]

\* f"Column {i+1}"
ColumnName(i) == CASE i = 1 -> "Column 1" [] i = 2 -> "Column 2" [] OTHER -> "Column 3"

\* The rows collected from soup.find_all('tr')[1:], in order.
RECURSIVE body_rows(_, _, _)
body_rows(t, i, n) ==
    IF i > Len(t) THEN <<>>
    ELSE LET row == [j \in DOMAIN t[i] |-> cell_text(t[i][j])]
         IN  (IF keep_row(row) THEN <<fit_row(row, n)>> ELSE <<>>) \o body_rows(t, i + 1, n)

\* convert_html_table_to_markdown: None, or the lines of the grid: the header
\* line, the rule line and one line per collected row.
convert_html_table_to_markdown(t) ==
    LET first == IF t = <<>> THEN <<>> ELSE [j \in DOMAIN t[1] |-> t[1][j].text]
        rows == body_rows(t, 2, Len(first))
        headers == IF first = <<>> /\ rows # <<>>
                   THEN [i \in 1..Len(rows[1]) |-> ColumnName(i)]
                   ELSE first
    IN  IF headers = <<>> \/ rows = <<>>
        THEN [none |-> TRUE, headers |-> <<>>, rule |-> <<>>, rows |-> <<>>]
        ELSE [none |-> FALSE, headers |-> headers,
              rule |-> [i \in DOMAIN headers |-> "---"], rows |-> rows]

(***************************************************************************)
(* The refiner                                                             *)
(***************************************************************************)

\* What a completion request can come to: an exception before an answer is
\* read (transport error, missing content), or an answer text, which holds the
\* phrase "no table" or not, and whose CDATA payload is absent, not JSON, JSON
\* that fails the RevenueTable schema, or a valid RevenueTable.
Payloads == {"absent", "invalid_json", "invalid_schema", "valid"}
Answers == [raises : {FALSE}, phrase : BOOLEAN, payload : Payloads]
           \cup {[raises |-> TRUE, phrase |-> FALSE, payload |-> "absent"]}

\* A required field that the JSON object does not carry.
Missing == "<missing>"

\* RevenueItem.title / .amount / .is_subtotal and RevenueTable.table_title /
\* .table_total_revenue as they may stand in a JSON body.
Titles == {Missing, "", "Product A"}
Amounts == {50, 100}
TableTitles == {Missing, "Revenue by product"}
Totals == {150, 200}

RECURSIVE SumAmounts(_)
SumAmounts(items) ==
    IF items = <<>> THEN 0 ELSE items[1].amount + SumAmounts(Tail(items))

\* Mutant of model_validate_json: a validator also compares the total with the
\* sum of the items.
model_validate_json_sum_checked(body) ==
    /\ body.is_json
    /\ body.table_title # Missing
    /\ \A i \in DOMAIN body.revenue_items : body.revenue_items[i].title # Missing
    /\ SumAmounts(body.revenue_items) = body.table_total_revenue

\* RevenueTable.model_validate_json succeeds: the text is JSON, every required
\* field is there with its type (title: str admits the empty string), and no
\* validator relates the amounts to the total.
model_validate_json(body) ==
    /\ body.is_json
    /\ body.table_title # Missing
    /\ \A i \in DOMAIN body.revenue_items : body.revenue_items[i].title # Missing

\* The payload class of a response text: whether it has a CDATA section and
\* what model_validate_json makes of the section's body.
payload_of(content) ==
    IF ~content.cdata THEN "absent"
    ELSE IF ~content.body.is_json THEN "invalid_json"
    ELSE IF ~model_validate_json(content.body) THEN "invalid_schema"
    ELSE "valid"

\* parse_json_response: the exception it ends with, or "" when it returns the table.
\* model_validate_json raises pydantic's ValidationError for invalid JSON and for
\* a schema violation; neither handler (JSONDecodeError, KeyError) catches it.
parse_json_response(content) ==
    CASE content.payload = "absent"         -> "ValueError"
      [] content.payload = "invalid_json"   -> "ValidationError"
      [] content.payload = "invalid_schema" -> "ValidationError"
      [] content.payload = "valid"          -> ""

\* isinstance(e, ValueError): ValidationError derives from ValueError.
IsValueError(e) == e \in {"ValueError", "ValidationError"}

\* Mutant of refine_table: the payload is parsed before the phrase is looked for.
refine_table_parse_first(ans) ==
    IF ans.raises
    THEN [raised |-> TRUE, kind |-> "None", parsed |-> FALSE]
    ELSE LET e == parse_json_response(ans)
         IN  IF e = "" THEN [raised |-> FALSE, kind |-> "RevenueTable", parsed |-> TRUE]
             ELSE [raised |-> FALSE, kind |-> "None", parsed |-> TRUE]

\* Mutant of refine_table: the rejection phrase raises instead of returning None.
refine_table_reject_raises(ans) ==
    IF ans.raises \/ ans.phrase
    THEN [raised |-> TRUE, kind |-> "None", parsed |-> FALSE]
    ELSE LET e == parse_json_response(ans)
         IN  IF e = "" THEN [raised |-> FALSE, kind |-> "RevenueTable", parsed |-> TRUE]
             ELSE [raised |-> FALSE, kind |-> "None", parsed |-> TRUE]

\* The body of refine_table for one answer of the service: whether it raises,
\* what it returns, and whether parse_json_response was called.
refine_table(ans) ==
    IF ans.raises
    THEN [raised |-> TRUE, kind |-> "None", parsed |-> FALSE]
    ELSE IF ans.phrase
    THEN [raised |-> FALSE, kind |-> "None", parsed |-> FALSE]
    ELSE LET e == parse_json_response(ans)
         IN  IF e = "" THEN [raised |-> FALSE, kind |-> "RevenueTable", parsed |-> TRUE]
             ELSE IF IsValueError(e)
             THEN [raised |-> FALSE, kind |-> "None", parsed |-> TRUE]
             ELSE [raised |-> TRUE, kind |-> "None", parsed |-> TRUE]

\* Mutant of filter_empty: nothing is filtered out.
filter_empty_keep_all(tables) == tables

\* [table for table in refined_tables if table]: None is falsy, a RevenueTable truthy.
filter_empty(tables) == SelectSeq(tables, LAMBDA t : t.kind # "None")

\* @retry(max_retries=3) on refine_table
refine_max_retries == 3

(***************************************************************************)
(* SpecRetry: one call through a retry wrapper                             *)
(***************************************************************************)
\* No request made yet.
NoRequest == [ans |-> [raises |-> FALSE, phrase |-> FALSE, payload |-> "absent"],
              raised |-> FALSE, kind |-> "None", parsed |-> FALSE, calls |-> 0,
              status |-> "none", tag |-> "-", table |-> "-"]

RunIdle ==
    /\ pc = "idle" /\ filing = <<>> /\ gaap_tags = <<>> /\ tag_idx = 0
    /\ discovered = <<>> /\ revenue_tables = <<>> /\ tbl_idx = 0
    /\ refined_tables = <<>> /\ returned = <<>> /\ last = NoRequest

CleanIdle == table = <<>> /\ cleaned = NotYet /\ recleaned = NotYet

\* No pure function has been called.
NotCalled == [done |-> FALSE, value |-> <<>>]
\* main() of tl10k.py has not been started.
NotStarted == [step |-> "-", completed |-> <<>>, attempted |-> <<>>, failed |-> "-",
               saved |-> FALSE, exit |-> "-"]
FnIdle == args = <<>> /\ result = NotCalled /\ report = NotStarted

InitRetry ==
    /\ policy \in {"retry", "retry_with_backoff"}
    /\ max_retries \in IF policy = "retry" THEN -1..MaxRetries ELSE {max_attempts}
    /\ fails \in [1..StepCalls -> BOOLEAN]
    /\ w = NewFrame
    /\ prior = <<>>
    /\ RunIdle
    /\ CleanIdle
    /\ FnIdle

\* wrapper() of retry: the next invocation of func
RetryCall ==
    /\ policy = "retry"
    /\ w.status = "running"
    /\ w' = retry_wrapper(max_retries, w, fails[w.calls + 1])
    /\ UNCHANGED <<retry_vars, clean_vars, run_vars, fn_vars>>

\* wrapper() of retry_with_backoff: the next invocation of func
BackoffCall ==
    /\ policy = "retry_with_backoff"
    /\ w.status = "running"
    /\ w.attempt <= max_attempts
    /\ w' = backoff_wrapper(w, fails[w.calls + 1])
    /\ UNCHANGED <<retry_vars, clean_vars, run_vars, fn_vars>>

\* The wrapped function is called again after a call has ended either way.
NewCall ==
    /\ w.status # "running"
    /\ Len(prior) + 1 < MaxCalls
    /\ prior' = Append(prior, w.status)
    /\ fails' \in [1..StepCalls -> BOOLEAN]
    /\ w' = wrapper_entry(w)
    /\ UNCHANGED <<policy, max_retries, clean_vars, run_vars, fn_vars>>

NextRetry == RetryCall \/ BackoffCall \/ NewCall

SpecRetry == InitRetry /\ [][NextRetry]_vars

(***************************************************************************)
(* SpecClean: cleanup_table and cleanup_table of its result                *)
(***************************************************************************)
RetryIdle ==
    /\ policy = "retry" /\ max_retries = refine_max_retries
    /\ fails = <<>> /\ w = NewFrame /\ prior = <<>>

InitCleanup == InitClean /\ RetryIdle /\ RunIdle /\ FnIdle

NextClean ==
    \/ Cleanup /\ UNCHANGED <<retry_vars, w, run_vars, fn_vars>>
    \/ CleanupAgain /\ UNCHANGED <<retry_vars, w, run_vars, fn_vars>>

SpecClean == InitCleanup /\ [][NextClean]_vars

(***************************************************************************)
(* SpecValidate: one response text through refine_table and the final      *)
(* filter of analyze_revenue_tables                                        *)
(***************************************************************************)
MaxItems == 2        \* most revenue items of a JSON body

Items == [title : Titles, amount : Amounts, is_subtotal : BOOLEAN]
Bodies == [is_json : BOOLEAN, table_title : TableTitles,
           revenue_items : UNION {[1..n -> Items] : n \in 0..MaxItems},
           table_total_revenue : Totals]

InitValidate ==
    /\ args \in [phrase : BOOLEAN, cdata : BOOLEAN, body : Bodies]
    /\ result = NotCalled
    /\ RetryIdle /\ CleanIdle /\ RunIdle /\ report = NotStarted

\* refine_table on the response, then refined_tables.append and the final filter.
Refine ==
    /\ ~result.done
    /\ LET ans == [raises |-> FALSE, phrase |-> args.phrase, payload |-> payload_of(args)]
           r == refine_table(ans)
       IN  result' = [done |-> TRUE,
                      value |-> [raised |-> r.raised, kind |-> r.kind,
                                 kept |-> filter_empty(<<[kind |-> r.kind]>>)]]
    /\ UNCHANGED <<args, report, retry_vars, w, clean_vars, run_vars>>

NextValidate == Refine

SpecValidate == InitValidate /\ [][NextValidate]_vars

(***************************************************************************)
(* SpecGrid: convert_html_table_to_markdown on a table                     *)
(***************************************************************************)
InitGrid ==
    /\ args \in [html_table : HtmlTables]
    /\ result = NotCalled
    /\ RetryIdle /\ CleanIdle /\ RunIdle /\ report = NotStarted

Convert ==
    /\ ~result.done
    /\ result' = [done |-> TRUE, value |-> convert_html_table_to_markdown(args.html_table)]
    /\ UNCHANGED <<args, report, retry_vars, w, clean_vars, run_vars>>

NextGrid == Convert

SpecGrid == InitGrid /\ [][NextGrid]_vars

(***************************************************************************)
(* SpecLocate: get_tables_by_tag on a document, for the tag us-gaap:Revenues *)
(***************************************************************************)
MaxFacts == 2        \* most elements of the document carrying the tag

InitLocate ==
    /\ args \in [doc : UNION {[1..n -> Facts] : n \in 0..MaxFacts}, tag : {"Revenues"}]
    /\ result = NotCalled
    /\ RetryIdle /\ CleanIdle /\ RunIdle /\ report = NotStarted

\* get_tables_by_tag: the set filled by the loop, returned as a list.
Locate ==
    /\ ~result.done
    /\ \E tables \in list_of_set(locate(args.doc, args.tag, Len(args.doc))) :
           result' = [done |-> TRUE, value |-> tables]
    /\ UNCHANGED <<args, report, retry_vars, w, clean_vars, run_vars>>

NextLocate == Locate

SpecLocate == InitLocate /\ [][NextLocate]_vars

(***************************************************************************)
(* SpecCanon: get_tables_by_tag when cleanup_table may raise on a table    *)
(***************************************************************************)
InitCanon ==
    /\ args \in [doc : UNION {[1..n -> Facts] : n \in 0..MaxFacts}, tag : {"Revenues"},
                 raising : SUBSET Tables]
    /\ result = NotCalled
    /\ RetryIdle /\ CleanIdle /\ RunIdle /\ report = NotStarted

LocateOrFail ==
    /\ ~result.done
    /\ \E tables \in list_of_set(get_tables_by_tag(args.doc, args.tag, args.raising)) :
           result' = [done |-> TRUE, value |-> tables]
    /\ UNCHANGED <<args, report, retry_vars, w, clean_vars, run_vars>>

NextCanon == LocateOrFail

SpecCanon == InitCanon /\ [][NextCanon]_vars

(***************************************************************************)
(* SpecReport: main() of tl10k.py: get_summarize, then save_result         *)
(***************************************************************************)

\* The steps of get_summarize and main in program order: the filing lookup, the
\* revenue extraction, the items of the 10-K, the four sections, the save.
Sections == <<"get_overview", "get_products_and_services", "get_risk_factors",
              "get_strategies_and_future_plans">>
Order == <<"latest", "analyze_revenue_tables", "items">> \o Sections \o <<"save_result">>

\* The step after a step that succeeded; "end" after the last one.
next_step(step) ==
    LET i == CHOOSE k \in DOMAIN Order : Order[k] = step
    IN  IF i = Len(Order) THEN "end" ELSE Order[i + 1]

\* Mutant of exit_status: an error caught in main ends the process like a
\* normal return.
exit_status_zero(how) == "0"

\* The exit status of the process: exit(1) in main's handler of Exception,
\* exit(0) in its handler of KeyboardInterrupt, 0 when main returns.
exit_status(how) == IF how = "Exception" THEN "1" ELSE "0"

InitReport ==
    /\ report = [step |-> "latest", completed |-> <<>>, attempted |-> <<>>,
                 failed |-> "-", saved |-> FALSE, exit |-> "-"]
    /\ policy = "retry_with_backoff" /\ max_retries = max_attempts
    /\ fails = <<>> /\ w = NewFrame /\ prior = <<>>
    /\ CleanIdle /\ RunIdle
    /\ args = <<>> /\ result = NotCalled

\* A step that succeeded after n attempts.
Succeed(step, n) ==
    [report EXCEPT !.step = next_step(step),
                   !.completed = Append(@, [step |-> step, attempts |-> n]),
                   !.attempted = IF n = 1 THEN Append(@, step) ELSE @]

\* An error of a step reaches main's `except Exception`: nothing further runs.
Fail(step, n) ==
    [report EXCEPT !.step = "end", !.failed = step,
                   !.attempted = IF n = 1 THEN Append(@, step) ELSE @,
                   !.exit = exit_status("Exception")]

\* company = Company(symbol); filing = company.latest("10-K"): a filing, none
\* (get_summarize returns None and main ends without saving), or an error.
LatestFiling ==
    /\ report.step = "latest"
    /\ \E outcome \in {"filing", "None", "raises"} :
         report' = CASE outcome = "filing" -> Succeed("latest", 1)
                     [] outcome = "None" ->
                          [report EXCEPT !.step = "end", !.attempted = Append(@, "latest"),
                                         !.exit = exit_status("return")]
                     [] outcome = "raises" -> Fail("latest", 1)
    /\ UNCHANGED <<args, result, retry_vars, w, clean_vars, run_vars>>

\* revenues = parser.analyze_revenue_tables(filing_url): the run returns a list
\* or raises (a table whose three requests all raised).
AnalyzeRevenueTables ==
    /\ report.step = "analyze_revenue_tables"
    /\ \E raised \in BOOLEAN :
         report' = IF raised THEN Fail("analyze_revenue_tables", 1)
                   ELSE Succeed("analyze_revenue_tables", 1)
    /\ UNCHANGED <<args, result, retry_vars, w, clean_vars, run_vars>>

\* ten_k = filing.obj() and its items "ITEM 1", "ITEM 1A", "ITEM 7".
ReadItems ==
    /\ report.step = "items"
    /\ \E raised \in BOOLEAN :
         report' = IF raised THEN Fail("items", 1) ELSE Succeed("items", 1)
    /\ UNCHANGED <<args, result, retry_vars, w, clean_vars, run_vars>>

\* One attempt of the current section inside retry_with_backoff.
GenerateSection ==
    /\ \E i \in DOMAIN Sections : report.step = Sections[i]
    /\ w.status = "running"
    /\ \E failed \in BOOLEAN :
         LET f == backoff_wrapper(w, failed) IN
         CASE f.status = "running" ->
                /\ w' = f
                /\ report' = [report EXCEPT
                                 !.attempted = IF f.calls = 1 THEN Append(@, report.step)
                                               ELSE @]
           [] f.status = "returned" ->
                /\ w' = wrapper_entry(f)
                /\ report' = Succeed(report.step, f.calls)
           [] f.status = "raised" ->
                /\ w' = f
                /\ report' = Fail(report.step, f.calls)
    /\ UNCHANGED <<args, result, retry_vars, clean_vars, run_vars>>

\* if result: save_result(symbol, result, console): the summary is a non-empty
\* dict; open() of the output file may fail.
SaveResult ==
    /\ report.step = "save_result"
    /\ \E raised \in BOOLEAN :
         report' = IF raised THEN Fail("save_result", 1)
                   ELSE [Succeed("save_result", 1) EXCEPT !.saved = TRUE,
                                                          !.exit = exit_status("return")]
    /\ UNCHANGED <<args, result, retry_vars, w, clean_vars, run_vars>>

\* Ctrl-C while main is running: except KeyboardInterrupt, exit(0).
Interrupt ==
    /\ report.step \notin {"-", "end"}
    /\ report' = [report EXCEPT !.step = "end",
                                !.exit = exit_status("KeyboardInterrupt")]
    /\ UNCHANGED <<args, result, retry_vars, w, clean_vars, run_vars>>

NextReport ==
    \/ LatestFiling \/ AnalyzeRevenueTables \/ ReadItems \/ GenerateSection
    \/ SaveResult \/ Interrupt

SpecReport == InitReport /\ [][NextReport]_vars

(***************************************************************************)
(* SpecFilter: the two keyword filters on a tag list and a keyword list    *)
(***************************************************************************)
MaxTags == 2         \* longest tag list handed to a filter

\* Keywords handed to the filters: the one the code uses, the same capitalised,
\* and one that occurs at the start of another tag.
Keywords == {<<"r", "e", "v", "e", "n", "u", "e">>,
             <<"R", "e", "v", "e", "n", "u", "e">>,
             <<"c", "o", "s", "t">>}

InitFilter ==
    /\ args \in [tags : UNION {[1..n -> Locals] : n \in 0..MaxTags},
                 keywords : SUBSET Keywords]
    /\ result = NotCalled
    /\ RetryIdle /\ CleanIdle /\ RunIdle /\ report = NotStarted

\* The filter of analyze_revenue_tables on the local names.
FilterTags ==
    /\ ~result.done
    /\ result' = [done |-> TRUE,
                  value |-> [by |-> "analyze_revenue_tables",
                             kept |-> tag_filter(args.tags, args.keywords)]]
    /\ UNCHANGED <<args, report, retry_vars, w, clean_vars, run_vars>>

\* filter_elements_by_keywords on the elements carrying these names.
FilterElements ==
    /\ ~result.done
    /\ result' = [done |-> TRUE,
                  value |-> [by |-> "filter_elements_by_keywords",
                             kept |-> filter_elements_by_keywords(args.tags,
                                                                  args.keywords)]]
    /\ UNCHANGED <<args, report, retry_vars, w, clean_vars, run_vars>>

NextFilter == FilterTags \/ FilterElements

SpecFilter == InitFilter /\ [][NextFilter]_vars

(***************************************************************************)
(* Spec: one run of analyze_revenue_tables                                 *)
(***************************************************************************)

Init ==
    /\ RetryIdle
    /\ CleanIdle
    /\ FnIdle
    /\ pc = "download"
    /\ filing \in Filings
    /\ gaap_tags = <<>> /\ tag_idx = 0
    /\ discovered = <<>> /\ revenue_tables = <<>> /\ tbl_idx = 0
    /\ refined_tables = <<>> /\ returned = <<>> /\ last = NoRequest

\* filing_content = self.download_filing(filing_url); a failed download is None,
\* the `if filing_content:` block is skipped and the empty list is returned.
DownloadFiling ==
    /\ pc = "download"
    /\ \E ok \in BOOLEAN :
         IF ok THEN pc' = "get_gaaps" /\ UNCHANGED returned
         ELSE pc' = "done" /\ returned' = <<>>
    /\ UNCHANGED <<retry_vars, w, clean_vars, fn_vars, filing, gaap_tags, tag_idx, discovered,
                   revenue_tables, tbl_idx, refined_tables, last>>

\* gaap_tags = self.get_gaaps(filing_content) and the keyword filter.  When the
\* parse fails get_gaaps returns None and iterating it raises TypeError: the
\* run ends raised before the loop over the tags is entered (tag_idx stays 0).
GetGaaps ==
    /\ pc = "get_gaaps"
    /\ \E parsed \in BOOLEAN :
         IF parsed
         THEN /\ gaap_tags' = filter_tags(get_gaaps(filing))
              /\ tag_idx' = 1
              /\ pc' = "tags"
         ELSE /\ pc' = "raised"
              /\ UNCHANGED <<gaap_tags, tag_idx>>
    /\ UNCHANGED <<retry_vars, w, clean_vars, fn_vars, filing, discovered, revenue_tables,
                   tbl_idx, refined_tables, returned, last>>

\* for tag in gaap_tags: revenue_tables = self.get_tables_by_tag(...); a tag
\* without tables is passed over.
GetTablesByTag ==
    /\ pc = "tags"
    /\ tag_idx <= Len(gaap_tags)
    /\ LET found == locate(filing, gaap_tags[tag_idx], Len(filing)) IN
       /\ discovered' = found
       /\ \E order \in list_of_set(found) : revenue_tables' = order
       /\ IF found = <<>>
          THEN tag_idx' = tag_idx + 1 /\ UNCHANGED <<pc, tbl_idx, w>>
          ELSE pc' = "refine" /\ tbl_idx' = 1 /\ w' = wrapper_entry(w) /\ UNCHANGED tag_idx
    /\ UNCHANGED <<retry_vars, clean_vars, fn_vars, filing, gaap_tags, refined_tables,
                   returned, last>>

\* refined_table = self.refine_table(table): one request to the completion
\* service inside the retry wrapper, and refined_tables.append when it returns.
\* An error the wrapper re-raises leaves analyze_revenue_tables, which has no
\* handler.  last records the request for the properties below.
RefineTable ==
    /\ pc = "refine"
    /\ w.status = "running"
    /\ \E ans \in Answers :
         LET r == refine_table(ans)
             f == retry_wrapper(max_retries, w, r.raised)
             tag == gaap_tags[tag_idx]
             tbl == revenue_tables[tbl_idx]
         IN  /\ last' = [ans |-> ans, raised |-> r.raised, kind |-> r.kind,
                         parsed |-> r.parsed, calls |-> f.calls, status |-> f.status,
                         tag |-> tag, table |-> tbl]
             /\ CASE f.status = "running" ->
                      /\ w' = f
                      /\ UNCHANGED <<pc, tag_idx, tbl_idx, refined_tables>>
                 [] f.status = "raised" ->
                      /\ w' = f
                      /\ pc' = "raised"
                      /\ UNCHANGED <<tag_idx, tbl_idx, refined_tables>>
                 [] f.status = "returned" ->
                      /\ refined_tables' = Append(refined_tables,
                             [kind |-> r.kind, tag |-> tag, table |-> tbl])
                      /\ w' = wrapper_entry(f)
                      /\ IF tbl_idx < Len(revenue_tables)
                         THEN tbl_idx' = tbl_idx + 1 /\ UNCHANGED <<pc, tag_idx>>
                         ELSE pc' = "tags" /\ tag_idx' = tag_idx + 1 /\ UNCHANGED tbl_idx
    /\ UNCHANGED <<retry_vars, clean_vars, fn_vars, filing, gaap_tags, discovered,
                   revenue_tables, returned>>

\* refined_tables = [table for table in refined_tables if table]; return
ReturnTables ==
    /\ pc = "tags"
    /\ tag_idx > Len(gaap_tags)
    /\ returned' = filter_empty(refined_tables)
    /\ pc' = "done"
    /\ UNCHANGED <<retry_vars, w, clean_vars, fn_vars, filing, gaap_tags, tag_idx, discovered,
                   revenue_tables, tbl_idx, refined_tables, last>>

Next == DownloadFiling \/ GetGaaps \/ GetTablesByTag \/ RefineTable \/ ReturnTables

Spec == Init /\ [][Next]_vars

(***************************************************************************)
(* Properties                                                              *)
(***************************************************************************)

\* The step raises on each of its first k invocations and returns on the next.
FailsThenSucceeds(k) ==
    /\ k + 1 <= StepCalls
    /\ \A i \in 1..k : fails[i]
    /\ ~fails[k + 1]

\* Failures the wrapper has observed: retries (retry), attempt - 1 (backoff).
Observed == IF policy = "retry" THEN w.retries ELSE w.attempt - 1

\* C1: a step that fails exactly k times and then succeeds, wrapped with a retry
\* bound of k+1, is invoked exactly k+1 times; the wrapper observes k failures,
\* never raises, and returns the result of invocation k+1.
C1_RetryBoundSucceeds ==
    \A k \in 0..StepCalls - 1 :
        (FailsThenSucceeds(k) /\ max_retries = k + 1) =>
            /\ w.status # "raised"
            /\ w.status = "running" => w.calls <= k /\ Observed = w.calls
            /\ w.status = "returned" =>
                   w.calls = k + 1 /\ w.value = k + 1 /\ Observed = k

C1_Witness ==
    /\ policy = "retry" /\ max_retries = 3 /\ FailsThenSucceeds(2)
    /\ w.status = "returned" /\ w.calls = 3

\* C2: with a retry bound k >= 1 and a step whose first k invocations all fail,
\* the wrapper invokes the step exactly k times and then raises the error of the
\* k-th invocation; it never returns and never makes a (k+1)-th invocation.
C2_RetryBoundExhausted ==
    (max_retries >= 1 /\ \A i \in 1..max_retries : fails[i]) =>
        /\ w.status # "returned"
        /\ w.calls <= max_retries
        /\ w.status = "running" => w.calls < max_retries
        /\ w.status = "raised" => w.calls = max_retries /\ w.value = max_retries

C2_Witness ==
    /\ policy = "retry" /\ max_retries = 4 /\ \A i \in 1..4 : fails[i]
    /\ w.status = "raised" /\ w.calls = 4

\* An answer that is neither a rejection nor a well-formed payload.
IsFormatFailure(ans) == ~ans.raises /\ ~ans.phrase /\ ans.payload # "valid"
IsRejection(ans) == ~ans.raises /\ ans.phrase
Requested == last.status # "none"

\* C3: an answer without the rejection phrase whose payload is absent, invalid
\* JSON or schema-invalid is retried like a transport error: while attempts
\* remain, the request for the same table is issued again.
C3_FormatFailureRetried ==
    (Requested /\ IsFormatFailure(last.ans) /\ last.calls < refine_max_retries) =>
        last.status = "running"

\* C4: when the answer contains the phrase "no table", refine_table returns the
\* rejection (None) without calling parse_json_response and without raising,
\* whatever payload the answer carries.
C4_RejectionShortCircuit ==
    (Requested /\ IsRejection(last.ans)) =>
        /\ ~last.parsed
        /\ ~last.raised
        /\ last.kind = "None"
        /\ last.status = "returned"
        /\ refined_tables # <<>>
        /\ refined_tables[Len(refined_tables)] =
               [kind |-> "None", tag |-> last.tag, table |-> last.table]

C4_Witness ==
    /\ Requested /\ IsRejection(last.ans) /\ last.ans.payload = "valid"
    /\ last.status = "returned"

\* The refine_table calls that have returned for candidate (tag, tbl).
OutcomesFor(tag, tbl) ==
    {i \in DOMAIN refined_tables :
        refined_tables[i].tag = tag /\ refined_tables[i].table = tbl}

\* C5 as stated: a rejection ends the candidate after exactly one service call,
\* and the rejected candidate is not in the returned collection.
C5_RejectionAfterOneCall ==
    (Requested /\ IsRejection(last.ans)) =>
        /\ last.status = "returned"
        /\ last.calls = 1
        /\ \A j \in DOMAIN returned :
               ~(returned[j].tag = last.tag /\ returned[j].table = last.table)

\* C5 (amended): a rejection is terminal.  The rejecting answer ends the
\* refine_table call (it may follow requests that raised), no request is issued
\* for a candidate that already has an outcome, and a candidate whose outcome is
\* None has no entry in the returned collection.
C5_RejectionTerminal ==
    /\ (Requested /\ IsRejection(last.ans)) =>
           /\ last.status = "returned"
           /\ last.calls <= refine_max_retries
           /\ OutcomesFor(last.tag, last.table) = {Len(refined_tables)}
           /\ refined_tables[Len(refined_tables)].kind = "None"
    /\ (Requested /\ last.status # "returned") => OutcomesFor(last.tag, last.table) = {}
    /\ (Requested /\ last.status = "returned") =>
           OutcomesFor(last.tag, last.table) = {Len(refined_tables)}
    /\ \A i \in DOMAIN refined_tables :
           refined_tables[i].kind = "None" =>
               \A j \in DOMAIN returned :
                   ~(/\ returned[j].tag = refined_tables[i].tag
                     /\ returned[j].table = refined_tables[i].table)

C5_Witness ==
    /\ pc = "done" /\ Requested /\ IsRejection(last.ans) /\ last.calls = 2
    /\ Len(refined_tables) = 2 /\ Len(returned) = 1

\* C6: the value refine_table hands back for a format failure differs from the
\* value it hands back for an explicit rejection.
C6_FormatFailureDistinct ==
    (Requested /\ IsFormatFailure(last.ans) /\ last.status = "returned") =>
        \A a \in Answers :
            IsRejection(a) =>
                <<refine_table(a).raised, refine_table(a).kind>>
                    # <<last.raised, last.kind>>

\* C7: within one run a table container is refined at most once, whether the
\* facts that resolve to it carry the same retained tag or different ones.
C7_TableRefinedOnce ==
    \A i, j \in DOMAIN refined_tables :
        i # j => refined_tables[i].table # refined_tables[j].table

\* C8: cleanup_table applied to the result of cleanup_table(t) yields that result.
C8_CleanupIdempotent ==
    recleaned # NotYet => recleaned = cleaned

C8_Witness ==
    /\ recleaned # NotYet
    /\ \E i \in DOMAIN table :
         /\ "contextRef" \in table[i].attrs
         /\ table[i].style = <<"P", "c">>
         /\ cleaned[i] = [attrs |-> {}, style |-> <<"P", "c", ";">>]

\* C9: when the retry bound is exhausted for one candidate table, the run does
\* not raise: it goes on with the remaining tables and tags or returns.
C9_ExhaustedTableDropped ==
    (Requested /\ last.status = "raised") => pc \in {"refine", "tags", "done"}

\* Position of x in a sequence without repetitions.
IndexOf(seq, x) == CHOOSE i \in DOMAIN seq : seq[i] = x

\* C10: the returned sequence is ordered by tag in sorted order and, within a
\* tag, in the order the locator discovered the tag's tables in the document.
C10_ReturnedInDiscoveryOrder ==
    pc = "done" =>
        \A i, j \in DOMAIN returned :
            i < j =>
                \/ StrLess(Spell(returned[i].tag), Spell(returned[j].tag))
                \/ /\ returned[i].tag = returned[j].tag
                   /\ LET found == locate(filing, returned[i].tag, Len(filing))
                      IN  IndexOf(found, returned[i].table)
                              < IndexOf(found, returned[j].table)

\* No element of the document carries a retained tag, is of a fact kind and lies
\* in a table: no retained tag has a candidate table.
NoCandidates ==
    \A i \in DOMAIN filing :
        ~ /\ filing[i].kind # "xbrli:measure"
          /\ LowerKind(filing[i].kind) \in fact_kinds
          /\ filing[i].table # NoTable
          /\ StartsWith(Lower(Spell(filing[i].local)), <<"r", "e", "v", "e", "n", "u", "e">>)

\* The document was fetched and parsed: the loop over the tags was reached.
TagsDiscovered == tag_idx >= 1

\* C11: a run that discovers no tag, no candidate table or no accepted table
\* raises nothing and returns the empty sequence; without candidates it issues
\* no completion request.
C11_EmptyRunReturnsEmpty ==
    /\ (TagsDiscovered /\ NoCandidates) =>
           /\ pc \in {"tags", "done"}
           /\ ~Requested
           /\ refined_tables = <<>>
           /\ pc = "done" => returned = <<>>
    /\ (Requested /\ ~last.raised) => pc # "raised"
    /\ (pc = "done" /\ \A i \in DOMAIN refined_tables : refined_tables[i].kind = "None")
           => returned = <<>>

C11_Witness ==
    /\ pc = "done" /\ returned = <<>>
    /\ Len(refined_tables) = 2
    /\ \A i \in DOMAIN refined_tables : refined_tables[i].kind = "None"
    /\ IsRejection(last.ans)

\* C12: a parse failure in get_gaaps is absorbed: the run does not raise and
\* returns the empty sequence.
C12_ParseFailureAbsorbed ==
    (pc \notin {"download", "get_gaaps"} /\ ~TagsDiscovered) =>
        pc = "done" /\ returned = <<>>

\* C13: a run whose download failed does not complete as a successful result.
C13_DownloadFailureAborts ==
    ~(pc = "done" /\ ~TagsDiscovered)

\* C19: when the last permitted attempt for a candidate table raises, the error
\* leaves analyze_revenue_tables: nothing is returned, not even the tables
\* already accepted, and no further request is made.
C19_ExhaustionPropagates ==
    (Requested /\ last.raised /\ last.calls = refine_max_retries) =>
        /\ last.status = "raised"
        /\ pc = "raised"
        /\ w.status = "raised"
        /\ returned = <<>>
        /\ ~ENABLED Next

C19_Witness ==
    /\ pc = "raised" /\ Requested /\ last.calls = refine_max_retries
    /\ Len(refined_tables) = 1 /\ refined_tables[1].kind = "RevenueTable"

\* Failures a call tolerates before it raises.
Budget == IF policy = "retry" THEN max_retries ELSE max_attempts

\* C17: attempts are counted per call: whatever the earlier calls through the
\* wrapper did, a call starts with no failure counted, returns when the step
\* succeeds within the bound, and raises only after the full bound of failures.
C17_FreshBudgetPerCall ==
    /\ w.calls = 0 => w.status = "running" /\ Observed = 0 /\ w.waits = <<>>
    /\ \A k \in 0..StepCalls - 1 :
           (FailsThenSucceeds(k) /\ k < Budget) =>
               /\ w.status # "raised"
               /\ w.status = "returned" => w.calls = k + 1
    /\ (w.status = "raised" /\ Budget >= 1) => w.calls = Budget

C17_Witness ==
    /\ prior = <<"raised", "raised">>
    /\ policy = "retry" /\ max_retries = 3 /\ FailsThenSucceeds(2)
    /\ w.status = "returned" /\ w.calls = 3

\* The tags of a list that a predicate keeps, whatever their order in the list.
KeptOf(tags, keep(_)) == {t \in Range(tags) : keep(t)}

WellFormed ==
    /\ ~args.phrase /\ args.cdata /\ args.body.is_json
    /\ args.body.table_title # Missing
    /\ \A i \in DOMAIN args.body.revenue_items :
           args.body.revenue_items[i].title \notin {Missing, ""}

\* C15: a schema-valid payload is accepted whether or not its items add up to
\* its total: refine_table returns the table and the final filter keeps it.
C15_ArithmeticNotChecked ==
    (result.done /\ WellFormed) =>
        /\ ~result.value.raised
        /\ result.value.kind = "RevenueTable"
        /\ Len(result.value.kept) = 1

C15_Witness ==
    /\ result.done /\ WellFormed
    /\ Len(args.body.revenue_items) = 2
    /\ SumAmounts(args.body.revenue_items) = 150
    /\ args.body.table_total_revenue = 200
    /\ result.value.kind = "RevenueTable" /\ Len(result.value.kept) = 1

\* C16: an accepted RevenueTable has no item with an empty title.
C16_EmptyTitleRejected ==
    (result.done /\ result.value.kind = "RevenueTable") =>
        \A i \in DOMAIN args.body.revenue_items : args.body.revenue_items[i].title # ""

\* The table has a header row with cells and data rows, each data row with a
\* non-empty cell.
HasHeaderAndData ==
    /\ Len(args.html_table) >= 2
    /\ Len(args.html_table[1]) >= 1
    /\ \A i \in 2..Len(args.html_table) :
           \E j \in DOMAIN args.html_table[i] : args.html_table[i][j].text # ""

\* C18: for such a table the grid keeps the header cells, and has one body row
\* per data row, in the order of the source, none dropped.
C18_GridKeepsRows ==
    (result.done /\ HasHeaderAndData) =>
        LET t == args.html_table
            g == result.value
        IN  /\ ~g.none
            /\ g.headers = [j \in DOMAIN t[1] |-> t[1][j].text]
            /\ Len(g.rows) = Len(t) - 1
            /\ \A i \in DOMAIN g.rows :
                   /\ Len(g.rows[i]) = Len(g.headers)
                   /\ \A j \in DOMAIN g.rows[i] :
                          g.rows[i][j].text = IF j <= Len(t[i + 1]) THEN t[i + 1][j].text
                                              ELSE ""

C18_Witness ==
    /\ result.done /\ HasHeaderAndData
    /\ Len(args.html_table) = 3
    /\ NonEmptyCells(args.html_table[2]) = 1
    /\ args.html_table[2] # args.html_table[3]
    /\ Len(result.value.rows) = 2

\* The four recognized fact kinds, as element names.
RecognizedKinds == {"nonNumeric", "numeric", "nonFraction", "fraction"}

\* t is the nearest table among the ancestors of the element.
NearestTable(e, t) ==
    \E k \in DOMAIN e.ancestors :
        /\ e.ancestors[k] = t
        /\ \A j \in 1..k - 1 : e.ancestors[j] \notin Tables

\* C20: a table is a candidate of the tag exactly when it is the nearest
\* enclosing table of a tagged element of one of the four recognized kinds;
\* elements of other kinds and elements outside any table contribute nothing.
C20_CandidateIffFactInTable ==
    result.done =>
        /\ \A t \in Tables :
               t \in Range(result.value) <=>
                   \E i \in DOMAIN args.doc :
                       /\ args.doc[i].kind \in RecognizedKinds
                       /\ NearestTable(args.doc[i], t)
        /\ Range(result.value) \subseteq Tables
        /\ Len(result.value) = Cardinality(Range(result.value))

C20_Witness ==
    /\ result.done
    /\ Len(args.doc) = 2
    /\ args.doc[1].kind = "continuation" /\ args.doc[1].ancestors = <<"tableA">>
    /\ args.doc[2].kind = "nonFraction" /\ args.doc[2].ancestors = <<"tableB", "tableA">>
    /\ result.value = <<"tableB">>

\* A style holds a padding directive: `padding:` followed by a character that
\* is not the semicolon.
HasPadding(style) ==
    style # NoStyle /\ \E i \in 1..Len(style) - 1 : style[i] = "P" /\ style[i + 1] # ";"

\* d is one directive taken from style and closed by a semicolon: it starts with
\* `padding:`, its only semicolon is the last character, and without that
\* semicolon it stands in style from its first `padding:` directive on.
IsPaddingOf(d, style) ==
    /\ Len(d) >= 3 /\ d[1] = "P" /\ d[Len(d)] = ";"
    /\ \A j \in 1..Len(d) - 1 : d[j] # ";"
    /\ \E i \in 1..Len(style) :
           /\ SubSeq(style, i, i + Len(d) - 2) = SubSeq(d, 1, Len(d) - 1)
           /\ i + Len(d) - 2 <= Len(style)
           /\ \A k \in 1..i - 1 : ~(style[k] = "P" /\ style[k + 1] # ";")
           /\ i + Len(d) - 1 <= Len(style) => style[i + Len(d) - 1] = ";"

C22_CleanupFailureAbsorbed ==
    result.done =>
        \A t \in Tables :
            (\E i \in DOMAIN args.doc :
                 args.doc[i].kind \in RecognizedKinds /\ NearestTable(args.doc[i], t))
            => t \in Range(result.value)

\* C23: when the first row yields no header cell and data rows follow, the
\* grid has the headers Column 1 .. Column n, n being the width of the data
\* rows, and holds those data rows; it is not None.
C23_HeadersSynthesized ==
    LET t == args.html_table IN
    (/\ result.done
     /\ Len(t) >= 2
     /\ Len(t[1]) = 0
     /\ \A i \in 2..Len(t) : Len(t[i]) >= 1) =>
        /\ ~result.value.none
        /\ result.value.headers = [i \in 1..Len(t[2]) |-> ColumnName(i)]
        /\ Len(result.value.rows) = Len(t) - 1

\* C24: retry_with_backoff sleeps 2 s after the first failed attempt and twice
\* the previous delay after each later one, only before a re-attempt: not
\* after a success, not after the last failed attempt.
C24_BackoffDelays ==
    policy = "retry_with_backoff" =>
        /\ \A i \in DOMAIN w.waits :
               w.waits[i] = IF i = 1 THEN 2 ELSE 2 * w.waits[i - 1]
        /\ Len(w.waits) <= max_attempts - 1
        /\ w.status = "running" => Len(w.waits) = w.calls
        /\ w.status # "running" => Len(w.waits) = w.calls - 1

C24_Witness ==
    /\ policy = "retry_with_backoff"
    /\ w.status = "raised" /\ w.calls = 3 /\ w.waits = <<2, 4>>

\* What a call through a wrapper comes to: the invocations made, how it ended,
\* and the invocation whose result or error it passed on.
Outcome(f) == [calls |-> f.calls, status |-> f.status, value |-> f.value]

\* C25: on every failure pattern retry(3) and retry_with_backoff invoke the
\* step the same number of times and end alike.
C25_WrappersEquivalent ==
    w.status # "running" =>
        /\ (policy = "retry" /\ max_retries = max_attempts) =>
               Outcome(w) = Outcome(run_backoff(NewFrame, fails))
        /\ policy = "retry_with_backoff" =>
               Outcome(w) = Outcome(run_retry(max_attempts, NewFrame, fails))

C25_Witness ==
    /\ policy = "retry" /\ max_retries = max_attempts
    /\ fails[1] /\ fails[2] /\ fails[3]
    /\ w.status = "raised" /\ w.value = 3
    /\ run_backoff(NewFrame, fails).status = "raised"

\* C28: retry(max_retries) with max_retries <= 0 invokes the step once and
\* passes its result or its error on; with max_retries >= 1 every invocation
\* is made inside the loop.
C28_NoProtectionAtZero ==
    policy = "retry" =>
        /\ (max_retries <= 0 /\ w.status # "running") =>
               /\ w.calls = 1 /\ w.value = 1 /\ w.retries = 0
               /\ w.status = IF fails[1] THEN "raised" ELSE "returned"
        /\ max_retries <= 0 => w.calls <= 1
        /\ (max_retries >= 1 /\ w.status = "running") => w.retries < max_retries

C28_Witness ==
    /\ policy = "retry" /\ max_retries = -1
    /\ fails[1] /\ w.status = "raised" /\ w.calls = 1

\* What is left of a run, as a number that every step of the run lowers: the
\* stages ahead, the tags ahead, the tables of the current tag ahead and the
\* requests the current table may still take.
PerTable == refine_max_retries + 1
PerTag == Cardinality(Tables) * PerTable + 1
Rank ==
    CASE pc = "download"  -> (Cardinality(Locals) + 1) * PerTag + 3
      [] pc = "get_gaaps" -> (Cardinality(Locals) + 1) * PerTag + 2
      [] pc = "tags"      -> (Len(gaap_tags) + 1 - tag_idx) * PerTag + 1
      [] pc = "refine"    -> (Len(gaap_tags) - tag_idx) * PerTag + 1
                             + (Len(revenue_tables) - tbl_idx) * PerTable
                             + (refine_max_retries - w.calls)
      [] OTHER            -> 0

\* C26, in every state: a run that has not ended can take a step (in the loop
\* over the tags: there is a next tag or the list is exhausted; while a table
\* is refined: the wrapper is running on a table of the list, so a request can
\* be made); a candidate takes between 1 and 3 requests; without a retained
\* tag (download failed, no tag passes the filter) no request is made.
C26_RunState ==
    /\ Rank \in Nat
    /\ pc \in {"download", "get_gaaps"} => ENABLED Next
    /\ pc = "tags" => tag_idx \in 1..Len(gaap_tags) + 1
    /\ pc = "refine" => /\ w.status = "running"
                        /\ tag_idx \in DOMAIN gaap_tags
                        /\ tbl_idx \in DOMAIN revenue_tables
    /\ pc \in {"download", "get_gaaps", "tags", "refine", "done", "raised"}
    /\ Requested => last.calls \in 1..refine_max_retries
    /\ gaap_tags = <<>> => ~Requested
    /\ pc = "refine" => w.calls < refine_max_retries

\* C26, in every step: the step lowers Rank; an outcome is appended only by a
\* request that did not raise; after a request that did not raise the next
\* request is the first one of another candidate, after one that raised it is
\* the next one of the same candidate.
C26_RunStep ==
    /\ Rank' < Rank
    /\ refined_tables' # refined_tables =>
           pc = "refine" /\ last'.calls >= 1 /\ last'.status = "returned"
    /\ pc = "refine" =>
           /\ last'.calls = w.calls + 1
           /\ (Requested /\ ~last.raised) =>
                  last'.calls = 1 /\ <<last'.tag, last'.table>> # <<last.tag, last.table>>
           /\ (Requested /\ last.raised) =>
                  /\ last'.calls = last.calls + 1
                  /\ <<last'.tag, last'.table>> = <<last.tag, last.table>>
    /\ pc # "refine" => last' = last

\* C26: every run ends, returned or raised, whatever the completion service
\* answers: each step brings the end nearer, a run that has not ended is not
\* stuck, each candidate takes 1 to 3 requests and none after a request that
\* returned, and no request is made without a retained tag.
C26_RunTerminates == []C26_RunState /\ [][C26_RunStep]_vars

C26_Witness ==
    /\ pc = "done"
    /\ Len(refined_tables) = 2
    /\ last.calls = refine_max_retries /\ last.status = "returned"

\* The steps of a log, in the order of the log.
StepsOf(log) == [i \in DOMAIN log |-> log[i].step]

\* C27: the output file is written only after the filing was found, the revenue
\* extraction returned and the four sections were generated in their order;
\* when a step fails for good (a section after its 3 attempts), no later step
\* is attempted, nothing is saved and the process exits with status 1.
C27_SaveAfterAllSteps ==
    /\ \E n \in 0..Len(Order) : report.attempted = SubSeq(Order, 1, n)
    /\ report.saved => StepsOf(report.completed) = Order
    /\ \A i \in DOMAIN report.completed : report.completed[i].attempts \in 1..max_attempts
    /\ report.failed # "-" =>
           /\ ~report.saved
           /\ report.exit = "1"
           /\ report.step = "end"
           /\ report.attempted[Len(report.attempted)] = report.failed
           /\ (\E i \in DOMAIN Sections : Sections[i] = report.failed) =>
                  w.calls = max_attempts

C27_Witness ==
    /\ report.failed = "get_risk_factors"
    /\ report.exit = "1" /\ ~report.saved
    /\ Len(report.completed) = 5
    /\ report.completed[5].attempts = 3

====
